---- MODULE Spec2Model ----
(***************************************************************************)
(* sniff: the capture loop that groups frames into RequestStats records,   *)
(* print_request (protocol gate, address display, log, exclude / filter /  *)
(* highlight, render), log_to_file (read-modify-write of the JSON log) and *)
(* the replay of a saved log (src/main.rs, src/conf.rs).                   *)
(*                                                                         *)
(* Representation.  A string is the sequence of its dot-separated labels   *)
(* and a label is a sequence of atoms, so that split('.') and join(".")    *)
(* are what they are in the code.  A file is a sequence of tokens: JSON    *)
(* punctuation, one token per serialized record, whitespace, junk, or a    *)
(* byte that is not UTF-8.  Time is counted in whole ticks of SystemTime.  *)
(* A payload is modelled by its length; MAC addresses are small numbers.   *)
(***************************************************************************)
EXTENDS Integers, Sequences, FiniteSets

\* ------------------------------------------------------------------ bounds
MaxTime == 1
MaxStamp == 2
MaxAppends == 3
MaxFrames == 3
MaxCalls == 2
MaxDoc == 3
MaxRuns == 2

\* ------------------------------------------------- constants of the program
EthernetHeaderLen == 14
ProtocolOffset == 9
Ipv4HeaderLen == 20
Ipv6HeaderLen == 40

\* ---------------------------------------------------------------- strings
HexDigits == <<"0", "1", "2", "3", "4", "5", "6", "7", "8", "9", "a", "b", "c", "d", "e", "f">>

RECURSIVE Radix(_, _)
Radix(n, b) ==
    IF n < b THEN <<HexDigits[n + 1]>>
    ELSE Radix(n \div b, b) \o <<HexDigits[(n % b) + 1]>>

RECURSIVE JoinAtoms(_, _)
JoinAtoms(labels, sep) ==
    IF Len(labels) = 0 THEN <<>>
    ELSE IF Len(labels) = 1 THEN labels[1]
    ELSE labels[1] \o <<sep>> \o JoinAtoms(Tail(labels), sep)

\* conf.rs: IpV4 and IpV6 hold their octets
V4(o1, o2, o3, o4) == [fam |-> "V4", octets |-> <<o1, o2, o3, o4>>]

\* From<(u16, ..., u16)> for IpV6: eight segments to sixteen octets
V6(segs) ==
    [fam |-> "V6",
     octets |-> [i \in 1..16 |->
        IF i % 2 = 1 THEN segs[(i + 1) \div 2] \div 256 ELSE segs[i \div 2] % 256]]

\* Display for IpV6 first rebuilds the eight 16-bit segments
Segments(ip) == [i \in 1..8 |-> ip.octets[2 * i - 1] * 256 + ip.octets[2 * i]]

\* Display for IpV4: "{}.{}.{}.{}", four labels
IpV4ToString(ip) == [i \in 1..4 |-> Radix(ip.octets[i], 10)]

\* Display for IpV6: "{:x}:{:x}:...", eight segments, never shortened; one label
IpV6ToString(ip) == <<JoinAtoms([i \in 1..8 |-> Radix(Segments(ip)[i], 16)], ":")>>

\* Display for IpAddr
IpAddrToString(ip) == IF ip.fam = "V4" THEN IpV4ToString(ip) ELSE IpV6ToString(ip)

\* std::net::IpAddr's Display, which print_request uses when the lookup fails:
\* an IPv6 address is written with its longest run of two or more zero
\* segments (the first, among equals) shortened to "::"
ZeroRun(segs, i) ==
    LET ends == {j \in i..8 : \A k \in i..j : segs[k] = 0}
    IN  Cardinality(ends)

StdToString(ip) ==
    IF ip.fam = "V4" THEN IpV4ToString(ip)
    ELSE
      LET segs == Segments(ip)
          best == CHOOSE i \in 1..8 :
                     /\ \A j \in 1..8 : ZeroRun(segs, j) <= ZeroRun(segs, i)
                     /\ \A j \in 1..(i - 1) : ZeroRun(segs, j) < ZeroRun(segs, i)
          n    == ZeroRun(segs, best)
          hex(from, to) == JoinAtoms([k \in 1..(to - from + 1) |-> Radix(segs[from + k - 1], 16)], ":")
      IN  IF n < 2 THEN IpV6ToString(ip)
          ELSE <<hex(1, best - 1) \o <<":", ":">> \o hex(best + n, 8)>>

\* ---------------------------------------------------------------- Protocol
\* a mutant: TCP and UDP change places
ProtocolFrom_swapped(num) ==
    CASE num = 1 -> "Icmp"
      [] num = 6 -> "Udp"
      [] num = 17 -> "Tcp"
      [] OTHER -> "Unknown"

\* impl From<u8> for Protocol
ProtocolFrom(num) ==
    CASE num = 1 -> "Icmp"
      [] num = 6 -> "Tcp"
      [] num = 17 -> "Udp"
      [] OTHER -> "Unknown"

\* --------------------------------------------------------- the log document
NoStats ==
    [protocol |-> "Unknown", orig_ip |-> V4(0, 0, 0, 0), orig_mac |-> 0,
     dest_ip |-> V4(0, 0, 0, 0), dest_mac |-> 0, bytes |-> 0, packets |-> 0,
     timestamp |-> 0, raw |-> <<>>]

Tok(t) == [t |-> t, stats |-> NoStats, time |-> 0]
RecTok(stats) == [t |-> "rec", stats |-> stats, time |-> 0]
TimeTok(time) == [t |-> "start_time", stats |-> NoStats, time |-> time]

\* serde_json::to_string(&PacketLog): {"packets":[...],"start_time":...}
to_string(log) ==
    <<Tok("{")>> \o [i \in 1..Len(log.packets) |-> RecTok(log.packets[i])]
        \o <<TimeTok(log.start_time), Tok("}")>>

IsWs(tok) == tok.t = "ws"
NotWs(tok) == tok.t /= "ws"

\* serde_json::from_str::<PacketLog>: whitespace between the tokens is skipped,
\* anything else that is not exactly one document is an error
from_str(data) ==
    LET d == SelectSeq(data, NotWs)
        n == Len(d)
        ok == /\ n >= 3
              /\ d[1].t = "{"
              /\ d[n].t = "}"
              /\ d[n - 1].t = "start_time"
              /\ \A i \in 2..(n - 2) : d[i].t = "rec"
    IN  [ok |-> ok,
         packets |-> IF ok THEN [i \in 1..(n - 3) |-> d[i + 1].stats] ELSE <<>>,
         start_time |-> IF ok THEN d[n - 1].time ELSE 0]

\* ------------------------------------------------------------------- files
NoFile == [exists |-> FALSE, data |-> <<>>]
File(data) == [exists |-> TRUE, data |-> data]

\* OpenOptions::new().read(true).write(true).create(true).open(fname):
\* a missing file is created empty
open(fs, fname) == IF fs[fname].exists THEN fs ELSE [fs EXCEPT ![fname] = File(<<>>)]

\* read_to_string fails on a byte sequence that is not UTF-8
IsUtf8(data) == \A i \in 1..Len(data) : data[i].t /= "bin"

\* seek(Start(0)) and write_all: the bytes beyond the written ones stay
write_all(old, new) == new \o SubSeq(old, Len(new) + 1, Len(old))

\* a mutant: the document takes the start_time of the calling run
log_to_file_reanchor(fs, stats, fname, st) ==
    LET opened == open(fs, fname)
        data == opened[fname].data
        parsed == from_str(data)
        logs0 == [packets |-> IF parsed.ok THEN parsed.packets ELSE <<>>, start_time |-> st]
        logs1 == [logs0 EXCEPT !.packets = Append(@, stats)]
    IN  IF ~IsUtf8(data) THEN [files |-> opened, panic |-> TRUE]
        ELSE [files |-> [opened EXCEPT ![fname] = File(write_all(data, to_string(logs1)))],
              panic |-> FALSE]

\* fn log_to_file(stats, fname, start_time)
log_to_file(fs, stats, fname, st) ==
    LET opened == open(fs, fname)
        data == opened[fname].data
        parsed == from_str(data)
        logs0 == IF parsed.ok
                 THEN [packets |-> parsed.packets, start_time |-> parsed.start_time]
                 ELSE [packets |-> <<>>, start_time |-> st]
        logs1 == [logs0 EXCEPT !.packets = Append(@, stats)]
    IN  IF ~IsUtf8(data) THEN [files |-> opened, panic |-> TRUE]
        ELSE [files |-> [opened EXCEPT ![fname] = File(write_all(data, to_string(logs1)))],
              panic |-> FALSE]

\* ------------------------------------------------------------------ Config
Some(v) == [some |-> TRUE, v |-> v]
None(default) == [some |-> FALSE, v |-> default]

\* enum IpAddrOrHostname
Hostname(s) == [kind |-> "Hostname", ip |-> V4(0, 0, 0, 0), s |-> s]
Ip(ip) == [kind |-> "Ip", ip |-> ip, s |-> <<>>]

\* s.contains(':')
contains_colon(s) == \E i \in 1..Len(s) : \E j \in 1..Len(s[i]) : s[i][j] = ":"

\* split(':') of a string without a dot
RECURSIVE split_colon(_)
split_colon(label) ==
    IF \A j \in 1..Len(label) : label[j] /= ":" THEN <<label>>
    ELSE LET k == CHOOSE j \in 1..Len(label) :
                      label[j] = ":" /\ \A i \in 1..(j - 1) : label[i] /= ":"
         IN  <<SubSeq(label, 1, k - 1)>> \o split_colon(SubSeq(label, k + 1, Len(label)))

\* the value of a run of digits in base b, most significant first
RECURSIVE DigitsValue(_, _)
DigitsValue(digits, b) ==
    IF digits = <<>> THEN 0
    ELSE LET last == digits[Len(digits)]
         IN  DigitsValue(SubSeq(digits, 1, Len(digits) - 1), b) * b
                + (CHOOSE d \in 0..15 : HexDigits[d + 1] = last)

\* u16::from_str_radix(octet, 16) and octet.parse::<u8>(): an empty string,
\* a character that is no digit of the base, or a value too large is an Err
from_str_radix(digits, b, max) ==
    LET ok == /\ digits /= <<>>
              /\ \A j \in 1..Len(digits) : \E d \in 0..(b - 1) : HexDigits[d + 1] = digits[j]
              /\ DigitsValue(digits, b) <= max
    IN  [ok |-> ok, v |-> IF ok THEN DigitsValue(digits, b) ELSE 0]

\* impl FromStr for IpV4: four parts between dots, each a u8
IpV4_from_str(s) ==
    LET parts == [i \in 1..Len(s) |-> from_str_radix(s[i], 10, 255)]
        ok == Len(s) = 4 /\ \A i \in 1..Len(s) : parts[i].ok
    IN  [ok |-> ok, ip |-> IF ok THEN V4(parts[1].v, parts[2].v, parts[3].v, parts[4].v)
                                 ELSE V4(0, 0, 0, 0)]

\* impl FromStr for IpV6: eight parts between colons, each a u16 in base 16;
\* a part that holds a dot is no number
IpV6_from_str(s) ==
    LET groups == IF Len(s) = 1 THEN split_colon(s[1]) ELSE <<>>
        parts == [i \in 1..Len(groups) |-> from_str_radix(groups[i], 16, 65535)]
        ok == Len(groups) = 8 /\ \A i \in 1..Len(groups) : parts[i].ok
    IN  [ok |-> ok, ip |-> IF ok THEN V6([i \in 1..8 |-> parts[i].v]) ELSE V4(0, 0, 0, 0)]

\* impl FromStr for IpAddr
IpAddr_from_str(s) == IF contains_colon(s) THEN IpV6_from_str(s) ELSE IpV4_from_str(s)

\* impl From<&str> for IpAddrOrHostname, which clap applies to each entry of
\* -X, -F and -I: panic where s.parse().unwrap() fails
IpAddrOrHostname_from(s) ==
    IF contains_colon(s)
    THEN LET parsed == IpAddr_from_str(s)
         IN  [panic |-> ~parsed.ok, v |-> IF parsed.ok THEN Ip(parsed.ip) ELSE Hostname(s)]
    ELSE [panic |-> FALSE, v |-> Hostname(s)]

\* ----------------------------------------------------------- print_request
\* dns_lookup::lookup_addr(&ip).unwrap_or(ip.to_string()), ip a std::net::IpAddr
lookup_addr(ip, res) == IF res[ip].ok THEN res[ip].name ELSE StdToString(ip)

\* a mutant: the name is shown whole
truncate_whole(ip, shown) == shown

\* "remove all but the TLD": applied when the shown string is not the
\* record's own to_string(); split('.') is the sequence of labels
truncate(ip, shown) ==
    IF IpAddrToString(ip) /= shown
    THEN CASE Len(shown) = 0 -> IpAddrToString(ip)
           [] Len(shown) = 1 -> <<shown[1]>>
           [] Len(shown) = 2 -> shown
           [] OTHER -> SubSeq(shown, Len(shown) - 1, Len(shown))
    ELSE shown

\* the orig_ip / dest_ip strings of print_request
displayed(ip, cfg, res) ==
    truncate(ip, IF cfg.hostnames THEN lookup_addr(ip, res) ELSE IpAddrToString(ip))

\* if config.protocol.is_some() && stats.protocol != protocol { return; }
protocol_gate(stats, cfg) == cfg.protocol.some => stats.protocol = cfg.protocol.v

\* the exclude checks: TRUE when the record is dropped
excluded(stats, cfg, orig_ip, dest_ip) ==
    \/ /\ cfg.exclude_ips.some
       /\ \/ Hostname(orig_ip) \in cfg.exclude_ips.v
          \/ Hostname(dest_ip) \in cfg.exclude_ips.v
    \/ /\ cfg.exclude_macs.some
       /\ \/ stats.orig_mac \in cfg.exclude_macs.v
          \/ stats.dest_mac \in cfg.exclude_macs.v

\* the allow-list checks: TRUE when the record is dropped
filtered_out(stats, cfg, orig_ip, dest_ip) ==
    \/ /\ cfg.filter_ips.some
       /\ Hostname(orig_ip) \notin cfg.filter_ips.v
       /\ Hostname(dest_ip) \notin cfg.filter_ips.v
    \/ /\ cfg.filter_macs.some
       /\ stats.orig_mac \notin cfg.filter_macs.v
       /\ stats.dest_mac \notin cfg.filter_macs.v

\* the escape code printed before the line: TRUE for red
highlight(stats, cfg, orig_ip, dest_ip) ==
    IF cfg.highlight_macs.some
    THEN stats.orig_mac \in cfg.highlight_macs.v \/ stats.dest_mac \in cfg.highlight_macs.v
    ELSE IF cfg.highlight_ips.some
    THEN Hostname(orig_ip) \in cfg.highlight_ips.v \/ Hostname(dest_ip) \in cfg.highlight_ips.v
    ELSE FALSE

\* the println! of print_request; the verbose form alone shows the packet
\* count and the MAC addresses
render(stats, cfg, st, orig_ip, dest_ip) ==
    [red |-> highlight(stats, cfg, orig_ip, dest_ip),
     protocol |-> stats.protocol,
     packets |-> IF cfg.verbose THEN stats.packets ELSE 0,
     elapsed |-> stats.timestamp - st,
     orig_ip |-> orig_ip,
     orig_mac |-> IF cfg.verbose THEN stats.orig_mac ELSE 0,
     dest_ip |-> dest_ip,
     dest_mac |-> IF cfg.verbose THEN stats.dest_mac ELSE 0,
     bytes |-> stats.bytes]

\* a mutant: the record is logged after the exclude and allow-list checks
print_request_filter_first(stats, cfg, st, fs, res) ==
    LET orig_ip == displayed(stats.orig_ip, cfg, res)
        dest_ip == displayed(stats.dest_ip, cfg, res)
        drop == excluded(stats, cfg, orig_ip, dest_ip) \/ filtered_out(stats, cfg, orig_ip, dest_ip)
        logged == IF cfg.log_file.some /\ ~drop
                  THEN log_to_file(fs, stats, cfg.log_file.v, st)
                  ELSE [files |-> fs, panic |-> FALSE]
    IN  IF ~protocol_gate(stats, cfg) \/ drop
        THEN [files |-> fs, out |-> <<>>, panic |-> FALSE, logged |-> FALSE]
        ELSE IF logged.panic \/ stats.timestamp < st
        THEN [files |-> logged.files, out |-> <<>>, panic |-> TRUE, logged |-> cfg.log_file.some]
        ELSE [files |-> logged.files, out |-> <<render(stats, cfg, st, orig_ip, dest_ip)>>,
              panic |-> FALSE, logged |-> cfg.log_file.some]

\* fn print_request(stats, config, start_time), with the files and the
\* resolver it acts on.  out: the line printed, if any; panic: an unwrap
\* failed (in log_to_file, or duration_since(start_time) of a timestamp
\* before start_time); logged: log_to_file was called
print_request(stats, cfg, st, fs, res) ==
    LET orig_ip == displayed(stats.orig_ip, cfg, res)
        dest_ip == displayed(stats.dest_ip, cfg, res)
        logged == IF cfg.log_file.some
                  THEN log_to_file(fs, stats, cfg.log_file.v, st)
                  ELSE [files |-> fs, panic |-> FALSE]
    IN  IF ~protocol_gate(stats, cfg)
        THEN [files |-> fs, out |-> <<>>, panic |-> FALSE, logged |-> FALSE]
        ELSE IF logged.panic
        THEN [files |-> logged.files, out |-> <<>>, panic |-> TRUE, logged |-> TRUE]
        ELSE IF excluded(stats, cfg, orig_ip, dest_ip) \/ filtered_out(stats, cfg, orig_ip, dest_ip)
        THEN [files |-> logged.files, out |-> <<>>, panic |-> FALSE, logged |-> cfg.log_file.some]
        ELSE IF stats.timestamp < st
        THEN [files |-> logged.files, out |-> <<>>, panic |-> TRUE, logged |-> cfg.log_file.some]
        ELSE [files |-> logged.files, out |-> <<render(stats, cfg, st, orig_ip, dest_ip)>>,
              panic |-> FALSE, logged |-> cfg.log_file.some]

\* ---------------------------------------------------------- the normalizer
\* A captured datagram: its length, the Ethernet header fields and the
\* network header fields main reads.  The addresses are those found where
\* the header main parses the payload as (IPv4 for the IPv4 ethertype, IPv6
\* for every other) keeps them; byte9 is the payload's byte at ProtocolOffset
Raw(size, ethertype, src, dst, byte9, ip_src, ip_dst) ==
    [size |-> size, ethertype |-> ethertype, src |-> src, dst |-> dst,
     byte9 |-> byte9, ip_src |-> ip_src, ip_dst |-> ip_dst]

\* struct ProcessedPacket; the payload is modelled by its length
ProcessedPacket(raw) ==
    [orig_mac |-> raw.src, dest_mac |-> raw.dst,
     protocol |-> ProtocolFrom(raw.byte9),
     payload |-> raw.size - EthernetHeaderLen]

\* main, the head of the loop body: "panic" where an unwrap or an index
\* fails, "skip" where the loop continues, "frame" where the datagram
\* reaches the grouping
normalize(raw) ==
    LET len == raw.size - EthernetHeaderLen
    IN  IF raw.size < EthernetHeaderLen THEN "panic"
        ELSE IF len <= ProtocolOffset THEN "panic"
        ELSE IF raw.ethertype = "Ipv4"
        THEN (IF len < Ipv4HeaderLen THEN "panic" ELSE "frame")
        ELSE (IF len < Ipv6HeaderLen THEN "skip" ELSE "frame")

\* --------------------------------------------------------- the aggregator
RECURSIVE SumPayload(_)
SumPayload(reqs) == IF reqs = <<>> THEN 0 ELSE reqs[1].payload + SumPayload(Tail(reqs))

\* a mutant: the group is keyed by the destination MAC alone
same_pair_dest_only(last_packet, packet) == last_packet.dest_mac = packet.dest_mac

\* a mutant: the group is keyed by the source MAC alone
same_pair_orig_only(last_packet, packet) == last_packet.orig_mac = packet.orig_mac

\* last_packet.orig_mac == packet.orig_mac && last_packet.dest_mac == packet.dest_mac
same_pair(last_packet, packet) ==
    last_packet.orig_mac = packet.orig_mac /\ last_packet.dest_mac = packet.dest_mac

\* a mutant: the byte count leaves out the first frame of the group
total_bytes_skip_first(reqs) == SumPayload(Tail(reqs))

\* for req in current_requests.iter() { total_bytes += req.payload.len(); }
total_bytes(reqs) == SumPayload(reqs)

\* a mutant: the record leaves out the last frame of the group
RequestStats_without_last(reqs, orig_ip, dest_ip, time) ==
    LET kept == SubSeq(reqs, 1, Len(reqs) - 1)
    IN  [protocol |-> reqs[1].protocol,
         orig_ip |-> orig_ip, orig_mac |-> reqs[1].orig_mac,
         dest_ip |-> dest_ip, dest_mac |-> reqs[1].dest_mac,
         bytes |-> SumPayload(kept), packets |-> Len(kept),
         timestamp |-> time,
         raw |-> [i \in 1..Len(kept) |-> kept[i].payload]]

\* a mutant: the record takes its protocol from the last frame of the group
RequestStats_last_protocol(reqs, orig_ip, dest_ip, time) ==
    [protocol |-> reqs[Len(reqs)].protocol,
     orig_ip |-> orig_ip, orig_mac |-> reqs[1].orig_mac,
     dest_ip |-> dest_ip, dest_mac |-> reqs[1].dest_mac,
     bytes |-> total_bytes(reqs), packets |-> Len(reqs),
     timestamp |-> time,
     raw |-> [i \in 1..Len(reqs) |-> reqs[i].payload]]

\* let stats = RequestStats { ... }: orig_ip and dest_ip are those of the
\* datagram just received; raw is kept as the sequence of payload lengths
RequestStats(reqs, orig_ip, dest_ip, time) ==
    [protocol |-> reqs[1].protocol,
     orig_ip |-> orig_ip, orig_mac |-> reqs[1].orig_mac,
     dest_ip |-> dest_ip, dest_mac |-> reqs[1].dest_mac,
     bytes |-> total_bytes(reqs), packets |-> Len(reqs),
     timestamp |-> time,
     raw |-> [i \in 1..Len(reqs) |-> reqs[i].payload]]

\* ------------------------------------------------------------------- state
VARIABLES
    files,             \* the file system: file name -> [exists, data]
    files0,            \* (history) the files when the process started
    began,             \* (history) the clock when the process started
    now,               \* SystemTime::now()
    resolver,          \* the reverse DNS the process sees: IpAddr -> [ok, name]
    config,            \* conf::get_conf()
    pc,                \* "start", "live", "replay", "exit", "panic"
    start_time,        \* main's start_time
    current_requests,  \* main's current_requests
    logs,              \* main's logs: the PacketLog loaded for replay
    idx,               \* the replay loop's position in logs.packets
    amount_slept,      \* main's amount_slept
    stdout,            \* the lines printed by the process
    accepted,          \* (history) the frames that reached the grouping
    emitted,           \* (history) the records handed to print_request
    fed_at,            \* (history) the clock at each call of print_request
    outs,              \* (history) what each call of print_request printed
    waits,             \* (history) the duration of each sleep of the replay
    appends,           \* (history) the calls of log_to_file
    received,          \* (history) the datagrams rx.next() returned
    prev,              \* (history) the process that ran before this one
    runs               \* (history) how many processes ran before this one

vars == <<files, files0, began, now, resolver, config, pc, start_time, current_requests,
          logs, idx, amount_slept, stdout, accepted, emitted, fed_at, outs, waits,
          appends, received, prev, runs>>

procvars == <<pc, start_time, current_requests, logs, idx, amount_slept>>
histvars == <<accepted, emitted, fed_at, outs, waits, appends, received>>

\* ------------------------------------------------------------- the inputs
FileNames == {"a", "b"}
Macs == {1, 2, 3}

Addr4a == V4(10, 0, 0, 1)
Addr4b == V4(10, 0, 0, 2)
\* fe80:0:0:0:0:0:0:1, which std writes fe80::1; its second octet is 128
Addr6a == V6(<<65152, 0, 0, 0, 0, 0, 0, 1>>)
\* 2006:1:2:3:4:5:6:7, written alike by both; its second octet is 6
Addr6b == V6(<<8198, 1, 2, 3, 4, 5, 6, 7>>)
Ips == {Addr4a, Addr4b, Addr6a, Addr6b}

Name(labels) == [i \in 1..Len(labels) |-> <<labels[i]>>]
Resolved(labels) == [ok |-> TRUE, name |-> Name(labels)]
Unresolved == [ok |-> FALSE, name |-> <<>>]

\* reverse DNS tables: nothing resolves; names of three, one and two labels
ResolveNone == [ip \in Ips |-> Unresolved]
ResolveSome ==
    [ip \in Ips |->
        CASE ip = Addr4a -> Resolved(<<"api", "example", "com">>)
          [] ip = Addr4b -> Resolved(<<"localhost">>)
          [] ip = Addr6b -> Resolved(<<"host", "lan">>)
          [] OTHER -> Unresolved]
\* a name of four labels; an answer that is the numeric string itself, as
\* getnameinfo gives for an address without a name; a name for fe80::1
ResolveDeep ==
    [ip \in Ips |->
        CASE ip = Addr4a -> Resolved(<<"foo", "bar", "example", "com">>)
          [] ip = Addr4b -> [ok |-> TRUE, name |-> IpV4ToString(Addr4b)]
          [] ip = Addr6a -> Resolved(<<"router", "lan">>)
          [] OTHER -> Unresolved]
Resolvers == {ResolveNone, ResolveSome, ResolveDeep}

NoMacs == None({})
NoIps == None({})
NoName == None("a")
NoProtocol == None("Unknown")

\* get_conf() with no option given
DefaultConfig ==
    [verbose |-> FALSE, log_file |-> NoName,
     exclude_ips |-> NoIps, exclude_macs |-> NoMacs,
     filter_ips |-> NoIps, filter_macs |-> NoMacs,
     highlight_ips |-> NoIps, highlight_macs |-> NoMacs,
     protocol |-> NoProtocol, load_from_file |-> NoName,
     real_time_playback |-> FALSE, hostnames |-> FALSE]

\* the datagrams of the capture: over three MAC pairs, two IPv4 headers that
\* differ in protocol, addresses and length; one with an IPv6 header; an ARP
\* datagram long enough for an IPv6 header and one that is not; and
\* datagrams too short for the Ethernet header, for the protocol byte, for
\* the IPv4 header and for the IPv6 header
MacPairs == {<<1, 2>>, <<1, 3>>, <<3, 2>>}

RawFrames ==
    {Raw(EthernetHeaderLen + Ipv4HeaderLen, "Ipv4", p[1], p[2], 6, Addr4a, Addr4b) : p \in MacPairs}
    \cup {Raw(EthernetHeaderLen + Ipv4HeaderLen + 10, "Ipv4", p[1], p[2], 17, Addr4b, Addr4a) : p \in MacPairs}
    \cup {Raw(EthernetHeaderLen + Ipv6HeaderLen, "Ipv6", 3, 2, 128, Addr6a, Addr6b),
          Raw(EthernetHeaderLen + Ipv6HeaderLen + 2, "Arp", 3, 2, 6, Addr6b, Addr6a),
          Raw(EthernetHeaderLen + 28, "Arp", 3, 2, 6, Addr6b, Addr6a),
          Raw(EthernetHeaderLen - 4, "Ipv4", 1, 2, 6, Addr4a, Addr4b),
          Raw(EthernetHeaderLen + ProtocolOffset, "Ipv4", 1, 2, 6, Addr4a, Addr4b),
          Raw(EthernetHeaderLen + Ipv4HeaderLen - 8, "Ipv4", 1, 2, 6, Addr4a, Addr4b),
          Raw(EthernetHeaderLen + Ipv6HeaderLen - 20, "Ipv6", 1, 2, 128, Addr6a, Addr6b)}

\* -------------------------------------------------------------- operations
\* what a call of print_request with result r leaves behind
Fed(stats, st, r, at) ==
    /\ files' = r.files
    /\ stdout' = stdout \o r.out
    /\ emitted' = Append(emitted, stats)
    /\ fed_at' = Append(fed_at, at)
    /\ outs' = Append(outs, r.out)
    /\ appends' = IF r.logged
                  THEN Append(appends, [fname |-> config.log_file.v, stats |-> stats, start_time |-> st])
                  ELSE appends

\* main, not loading: the capture starts
Capture ==
    /\ pc = "start"
    /\ ~config.load_from_file.some
    /\ pc' = "live"
    /\ start_time' = now
    /\ current_requests' = <<>>
    /\ UNCHANGED <<files, files0, began, now, resolver, config, logs, idx, amount_slept,
                   stdout, histvars, prev, runs>>

\* one turn of the capture loop on a datagram of `frames` that rx.next() returns
Receive(frames) ==
    /\ pc = "live"
    /\ received < MaxFrames
    /\ \E raw \in frames :
         LET kind == normalize(raw)
             packet == ProcessedPacket(raw)
         IN  /\ received' = received + 1
             /\ IF kind = "panic"
                THEN /\ pc' = "panic"
                     /\ UNCHANGED <<files, stdout, current_requests, accepted, emitted,
                                    fed_at, outs, appends>>
                ELSE IF kind = "skip"
                THEN UNCHANGED <<pc, files, stdout, current_requests, accepted, emitted,
                                 fed_at, outs, appends>>
                ELSE /\ accepted' = Append(accepted,
                            [packet |-> packet, orig_ip |-> raw.ip_src, dest_ip |-> raw.ip_dst,
                             raw |-> raw])
                     /\ IF \/ Len(current_requests) = 0
                           \/ same_pair(current_requests[Len(current_requests)], packet)
                        THEN /\ current_requests' = Append(current_requests, packet)
                             /\ UNCHANGED <<pc, files, stdout, emitted, fed_at, outs, appends>>
                        ELSE LET stats == RequestStats(current_requests, raw.ip_src, raw.ip_dst, now)
                                 r == print_request(stats, config, start_time, files, resolver)
                             IN  /\ Fed(stats, start_time, r, now)
                                 /\ IF r.panic
                                    THEN pc' = "panic" /\ UNCHANGED current_requests
                                    ELSE pc' = pc /\ current_requests' = <<packet>>
    /\ UNCHANGED <<files0, began, now, resolver, config, start_time, logs, idx, amount_slept,
                   waits, prev, runs>>

\* Err(e) => panic!("Failed to receive packet: {}", e)
RecvErr ==
    /\ pc = "live"
    /\ pc' = "panic"
    /\ UNCHANGED <<files, files0, began, now, resolver, config, start_time, current_requests,
                   logs, idx, amount_slept, stdout, histvars, prev, runs>>

\* the system clock moves on
Tick ==
    /\ now < MaxTime
    /\ now' = now + 1
    /\ UNCHANGED <<files, files0, began, resolver, config, procvars, stdout, histvars, prev, runs>>

\* a mutant: a file that is no document loads as an empty one, as in log_to_file
load_or_default(fs, fname) ==
    LET opened == open(fs, fname)
        parsed == from_str(opened[fname].data)
    IN  [files |-> opened, ok |-> TRUE,
         logs |-> [packets |-> parsed.packets, start_time |-> parsed.start_time]]

\* main, lines 22 to 34: the file is opened (and created if missing), read
\* and parsed, each step unwrapped
load(fs, fname) ==
    LET opened == open(fs, fname)
        data == opened[fname].data
        parsed == from_str(data)
    IN  [files |-> opened, ok |-> IsUtf8(data) /\ parsed.ok,
         logs |-> [packets |-> parsed.packets, start_time |-> parsed.start_time]]

\* main, loading
Load ==
    /\ pc = "start"
    /\ config.load_from_file.some
    /\ LET l == load(files, config.load_from_file.v)
       IN  /\ files' = l.files
           /\ IF l.ok
              THEN /\ pc' = "replay"
                   /\ logs' = l.logs
                   /\ start_time' = l.logs.start_time
                   /\ idx' = 1
                   /\ amount_slept' = 0
              ELSE /\ pc' = "panic"
                   /\ UNCHANGED <<logs, start_time, idx, amount_slept>>
    /\ UNCHANGED <<files0, began, now, resolver, config, current_requests, stdout, histvars, prev, runs>>

\* a mutant: a negative wait is clamped to zero, a timestamp before
\* start_time counts as start_time
time_diff_clamped(packet, st, slept) ==
    LET d == (IF packet.timestamp < st THEN 0 ELSE packet.timestamp - st) - slept
    IN  [panic |-> FALSE, d |-> IF d < 0 THEN 0 ELSE d]

\* a mutant: the wait is the whole distance from start_time each time
time_diff_absolute(packet, st, slept) ==
    [panic |-> packet.timestamp < st, d |-> packet.timestamp - st]

\* packet.timestamp.duration_since(start_time).unwrap().as_secs_f32() - amount_slept,
\* handed to Duration::from_secs_f32, which panics on a negative value
time_diff(packet, st, slept) ==
    [panic |-> packet.timestamp < st \/ (packet.timestamp - st) - slept < 0,
     d |-> (packet.timestamp - st) - slept]

\* one turn of either replay loop
ReplayStep ==
    /\ pc = "replay"
    /\ idx <= Len(logs.packets)
    /\ LET packet == logs.packets[idx]
           td == time_diff(packet, start_time, amount_slept)
           rt == config.real_time_playback
           at == IF rt THEN now + td.d ELSE now
           r == print_request(packet, config, start_time, files, resolver)
       IN  IF rt /\ td.panic
           THEN /\ pc' = "panic"
                /\ UNCHANGED <<files, now, idx, amount_slept, stdout, histvars>>
           ELSE /\ now' = at
                /\ waits' = IF rt THEN Append(waits, td.d) ELSE waits
                /\ Fed(packet, start_time, r, at)
                /\ IF r.panic
                   THEN pc' = "panic" /\ UNCHANGED <<idx, amount_slept>>
                   ELSE /\ pc' = pc
                        /\ idx' = idx + 1
                        /\ amount_slept' = IF rt THEN amount_slept + td.d ELSE amount_slept
                /\ UNCHANGED <<accepted, received>>
    /\ UNCHANGED <<files0, began, resolver, config, start_time, current_requests, logs, prev, runs>>

\* the loop is over: return
ReplayReturn ==
    /\ pc = "replay"
    /\ idx > Len(logs.packets)
    /\ pc' = "exit"
    /\ UNCHANGED <<files, files0, began, now, resolver, config, start_time, current_requests,
                   logs, idx, amount_slept, stdout, histvars, prev, runs>>

\* --------------------------------------------------- more inputs, by use
\* a record as the capture loop builds it from one frame
Stats(protocol, orig_mac, dest_mac, orig_ip, dest_ip, time) ==
    [protocol |-> protocol, orig_ip |-> orig_ip, orig_mac |-> orig_mac,
     dest_ip |-> dest_ip, dest_mac |-> dest_mac, bytes |-> Ipv4HeaderLen, packets |-> 1,
     timestamp |-> time, raw |-> <<Ipv4HeaderLen>>]

Junk(n) == [i \in 1..n |-> Tok("junk")]
Log(packets, st) == [packets |-> packets, start_time |-> st]
NoLogs == Log(<<>>, 0)
NoFiles == [f \in FileNames |-> NoFile]
NoPrev == [ran |-> FALSE, config |-> DefaultConfig, stdout |-> <<>>, files0 |-> NoFiles, pc |-> "start"]

StatsAt(time) == Stats("Tcp", 1, 2, Addr4a, Addr4b, time)

\* what the log file may hold before the first append: nothing (missing or
\* empty), text that is no document (short, long, cut off, not UTF-8, only
\* whitespace) and documents (compact, or written with whitespace)
EmptyContents == {NoFile, File(<<>>)}
CorruptContents ==
    {File(Junk(1)), File(Junk(6)),
     File(<<Tok("{"), RecTok(StatsAt(0)), RecTok(StatsAt(1)), RecTok(StatsAt(1)), TimeTok(0)>>),
     File(<<Tok("bin")>>),
     File(<<Tok("ws"), Tok("ws")>>)}
DocumentContents ==
    {File(to_string(Log(<<>>, 1))),
     File(to_string(Log(<<StatsAt(1)>>, 0))),
     File(<<Tok("{"), Tok("ws"), Tok("ws"), TimeTok(1), Tok("ws"), Tok("}")>>)}
AppendContents == EmptyContents \cup CorruptContents \cup DocumentContents

AppendStats == {StatsAt(0), Stats("Udp", 3, 2, Addr6a, Addr6b, MaxStamp)}

\* -------------------------------------------------------- other operations
Recv == Receive(RawFrames)

\* log_to_file called on the file "a": by any process, whatever its start_time
AppendRecord ==
    /\ Len(appends) < MaxAppends
    /\ \E stats \in AppendStats, st \in 0..MaxStamp :
         /\ files' = log_to_file(files, stats, "a", st).files
         /\ appends' = Append(appends, [fname |-> "a", stats |-> stats, start_time |-> st])
    /\ UNCHANGED <<files0, began, now, resolver, config, procvars, stdout, accepted, emitted,
                   fed_at, outs, waits, received, prev, runs>>

\* ---------------------------------------------------------- specifications
InitWith(cfg, fs, res, at, p) ==
    /\ files = fs
    /\ files0 = fs
    /\ began = at
    /\ now = at
    /\ resolver = res
    /\ config = cfg
    /\ pc = p
    /\ start_time = at
    /\ current_requests = <<>>
    /\ logs = NoLogs
    /\ idx = 1
    /\ amount_slept = 0
    /\ stdout = <<>>
    /\ accepted = <<>>
    /\ emitted = <<>>
    /\ fed_at = <<>>
    /\ outs = <<>>
    /\ waits = <<>>
    /\ appends = <<>>
    /\ received = 0
    /\ prev = NoPrev
    /\ runs = 0

\* the appends to one log file
InitAppend ==
    \E c \in AppendContents :
        InitWith(DefaultConfig, [NoFiles EXCEPT !["a"] = c], ResolveNone, 0, "live")
NextAppend == AppendRecord
SpecAppend == InitAppend /\ [][NextAppend]_vars

\* ------------------------------------------------------------ the capture
\* the options of the capture: none but -v, or a log file and TCP alone
LiveConfigs ==
    {[DefaultConfig EXCEPT !.verbose = TRUE],
     [DefaultConfig EXCEPT !.log_file = Some("a"), !.protocol = Some("Tcp")]}

InitLive == \E cfg \in LiveConfigs : InitWith(cfg, NoFiles, ResolveSome, 0, "start")
NextLive == Capture \/ Recv \/ RecvErr \/ Tick
SpecLive == InitLive /\ [][NextLive]_vars

\* ------------------------------------------------- the protocol of a frame
\* IPv4 datagrams over two MAC pairs whose protocol byte is one of the three
\* known numbers, a neighbour of one, or an end of the range of a byte
ProtocolBytes == {0, 1, 6, 17, 18, 255}
ProtoFrames ==
    {Raw(EthernetHeaderLen + Ipv4HeaderLen, "Ipv4", p[1], p[2], b, Addr4a, Addr4b) :
        p \in {<<1, 2>>, <<1, 3>>}, b \in ProtocolBytes}

RecvProto == Receive(ProtoFrames)

InitProto == InitWith([DefaultConfig EXCEPT !.verbose = TRUE], NoFiles, ResolveNone, 0, "start")
NextProto == Capture \/ RecvProto
SpecProto == InitProto /\ [][NextProto]_vars

\* ----------------------------------------------------------- the pipeline
Text(string) == Hostname(Name(string))
Text4a == Hostname(IpV4ToString(Addr4a))

\* the records handed to print_request: of each protocol kind, of both
\* address families, over two MAC pairs, early and late
PipeStats ==
    {Stats("Tcp", 1, 2, Addr4a, Addr4b, 1),
     Stats("Tcp", 3, 2, Addr6a, Addr6b, 1),
     Stats("Udp", 1, 2, Addr4b, Addr4a, 1),
     Stats("Udp", 3, 2, Addr6b, Addr4b, 2),
     Stats("Unknown", 3, 1, Addr6a, Addr4a, 0),
     Stats("Icmp", 2, 3, Addr4b, Addr6a, 2)}

PipeConfigs ==
    {[verbose |-> TRUE, log_file |-> l,
      exclude_ips |-> xi, exclude_macs |-> xm,
      filter_ips |-> fi, filter_macs |-> fm,
      highlight_ips |-> hi, highlight_macs |-> hm,
      protocol |-> p, load_from_file |-> NoName,
      real_time_playback |-> FALSE, hostnames |-> h] :
        l \in {NoName, Some("a")},
        xi \in {NoIps, Some({Text4a, Text(<<"host", "lan">>)})},
        xm \in {NoMacs, Some({3})},
        fi \in {NoIps, Some({Text(<<"example", "com">>), Hostname(IpV4ToString(Addr4b))})},
        fm \in {NoMacs, Some({1})},
        hi \in {NoIps, Some({Text4a})},
        hm \in {NoMacs, Some({2})},
        p \in {NoProtocol, Some("Tcp")},
        h \in BOOLEAN}

\* print_request called on a record, as the capture loop or a replay does
PrintRequest ==
    /\ pc = "live"
    /\ Len(emitted) < MaxCalls
    /\ \E stats \in PipeStats :
         LET r == print_request(stats, config, start_time, files, resolver)
         IN  /\ Fed(stats, start_time, r, now)
             /\ pc' = IF r.panic THEN "panic" ELSE pc
    /\ UNCHANGED <<files0, began, now, resolver, config, start_time, current_requests,
                   logs, idx, amount_slept, accepted, waits, received, prev, runs>>

InitPipeline == \E cfg \in PipeConfigs : InitWith(cfg, NoFiles, ResolveSome, 1, "live")
NextPipeline == PrintRequest
SpecPipeline == InitPipeline /\ [][NextPipeline]_vars

\* ------------------------------------------- the lists as the user gives them
\* the entries of -X, -F and -I, as clap builds them from their texts
entries(texts) == {IpAddrOrHostname_from(t).v : t \in texts}

Text4b == IpV4ToString(Addr4b)
Text6b == IpV6ToString(Addr6b)

\* the options of a capture that prints MAC addresses and keeps no log:
\* each list is absent or holds a name, an IPv4 literal and an IPv6 literal
MatchConfigs ==
    {[DefaultConfig EXCEPT !.verbose = TRUE, !.hostnames = h,
        !.exclude_ips = xi, !.exclude_macs = xm, !.filter_ips = fi, !.filter_macs = fm,
        !.highlight_ips = hi, !.highlight_macs = hm] :
        h \in BOOLEAN,
        xi \in {NoIps, Some(entries({Name(<<"localhost">>), IpV4ToString(Addr4a), Text6b}))},
        xm \in {NoMacs, Some({3})},
        fi \in {NoIps, Some(entries({Name(<<"example", "com">>), Text4b, Text6b}))},
        fm \in {NoMacs, Some({1})},
        hi \in {NoIps, Some(entries({Name(<<"host", "lan">>), IpV4ToString(Addr4a), Text6b}))},
        hm \in {NoMacs, Some({2})}}

InitMatch ==
    \E cfg \in MatchConfigs, res \in Resolvers : InitWith(cfg, NoFiles, res, 1, "live")
NextMatch == PrintRequest
SpecMatch == InitMatch /\ [][NextMatch]_vars

\* ------------------------------------------------------------- the replay
\* a document of n records: the i-th has timestamp ts[i], 20 * i bytes, and
\* is TCP at the odd places and UDP at the even ones
Doc(ts, st) ==
    Log([i \in 1..Len(ts) |->
            [Stats(IF i % 2 = 1 THEN "Tcp" ELSE "Udp", 1, 2, Addr4a, Addr4b, ts[i])
                EXCEPT !.bytes = Ipv4HeaderLen * i, !.raw = <<Ipv4HeaderLen * i>>]], st)

Stamps(n) == [1..n -> 0..MaxStamp]
Docs == {Doc(ts, st) : ts \in UNION {Stamps(n) : n \in 0..MaxDoc}, st \in 0..MaxStamp}

ReplayContents ==
    EmptyContents \cup CorruptContents \cup {File(to_string(d)) : d \in Docs}

ReplayConfigs ==
    {[DefaultConfig EXCEPT !.verbose = TRUE, !.load_from_file = Some("a"),
        !.log_file = l, !.real_time_playback = rt, !.protocol = p] :
        l \in {NoName, Some("a"), Some("b")}, rt \in BOOLEAN, p \in {NoProtocol, Some("Tcp")}}

InitReplay ==
    \E cfg \in ReplayConfigs, a \in ReplayContents, b \in {NoFile, File(to_string(Doc(<<MaxStamp>>, MaxStamp)))} :
        InitWith(cfg, [NoFiles EXCEPT !["a"] = a, !["b"] = b], ResolveSome, 0, "start")
NextReplay == Load \/ ReplayStep \/ ReplayReturn
SpecReplay == InitReplay /\ [][NextReplay]_vars

\* ------------------------------------------------- one process, then another
\* the datagrams of the shorter captures
FewFrames ==
    {Raw(EthernetHeaderLen + Ipv4HeaderLen, "Ipv4", 1, 2, 6, Addr4a, Addr4b),
     Raw(EthernetHeaderLen + Ipv4HeaderLen + 10, "Ipv4", 1, 2, 17, Addr4b, Addr4a),
     Raw(EthernetHeaderLen + Ipv6HeaderLen, "Ipv6", 3, 2, 128, Addr6a, Addr6b),
     Raw(EthernetHeaderLen + Ipv4HeaderLen, "Ipv4", 1, 3, 6, Addr4a, Addr4b)}

RecvFew == Receive(FewFrames)

\* the options of a process, before -L and -r
Options ==
    {[DefaultConfig EXCEPT !.log_file = Some("a")],
     [DefaultConfig EXCEPT !.log_file = Some("a"), !.protocol = Some("Tcp")],
     [DefaultConfig EXCEPT !.log_file = Some("a"), !.verbose = TRUE, !.exclude_macs = Some({3})],
     [DefaultConfig EXCEPT !.log_file = Some("a"), !.filter_ips = Some({Text4a}),
                           !.highlight_macs = Some({2})],
     [DefaultConfig EXCEPT !.log_file = Some("a"), !.hostnames = TRUE,
                           !.highlight_ips = Some({Text(<<"example", "com">>)})],
     [DefaultConfig EXCEPT !.verbose = TRUE]}

\* the same options with -L a, with and without -r
Replaying(o) == {[o EXCEPT !.load_from_file = Some("a"), !.real_time_playback = rt] : rt \in BOOLEAN}

\* the capture is over (it panicked or was killed) and the program is run
\* again with the same options, to replay the file "a"
Exec ==
    /\ pc \in {"live", "panic"}
    /\ ~prev.ran
    /\ \E cfg \in Replaying(config) : config' = cfg
    /\ prev' = [ran |-> TRUE, config |-> config, stdout |-> stdout, files0 |-> files0, pc |-> pc]
    /\ runs' = runs + 1
    /\ files0' = files
    /\ began' = now
    /\ pc' = "start"
    /\ start_time' = now
    /\ current_requests' = <<>>
    /\ logs' = NoLogs
    /\ idx' = 1
    /\ amount_slept' = 0
    /\ stdout' = <<>>
    /\ accepted' = <<>>
    /\ emitted' = <<>>
    /\ fed_at' = <<>>
    /\ outs' = <<>>
    /\ waits' = <<>>
    /\ appends' = <<>>
    /\ received' = 0
    /\ UNCHANGED <<files, now, resolver>>

Init ==
    \E cfg \in Options, a \in {NoFile, File(<<>>), File(Junk(6)), File(to_string(Doc(<<0>>, 0)))} :
        InitWith(cfg, [NoFiles EXCEPT !["a"] = a], ResolveSome, 0, "start")
Next == Capture \/ RecvFew \/ Tick \/ Load \/ ReplayStep \/ ReplayReturn \/ Exec
Spec == Init /\ [][Next]_vars

\* ------------------------------------------------ processes, one after another
\* the datagrams of these captures: IPv4, of two MAC pairs
RunFrames ==
    {Raw(EthernetHeaderLen + Ipv4HeaderLen, "Ipv4", 1, 2, 6, Addr4a, Addr4b),
     Raw(EthernetHeaderLen + Ipv4HeaderLen + 10, "Ipv4", 1, 3, 17, Addr4b, Addr4a)}

RecvRun == Receive(RunFrames)

\* captures that log to "a" or to "b"; replays of one of the two files that
\* log to neither, to the other or to the same
RunConfigs ==
    {[DefaultConfig EXCEPT !.log_file = Some(l)] : l \in FileNames}
    \cup {[DefaultConfig EXCEPT !.load_from_file = Some(f), !.log_file = l] :
            f \in FileNames, l \in {NoName, Some("a"), Some("b")}}

\* the process is over (it returned, panicked or was killed) and the program
\* is run again, with whatever options, on the files as they are
Restart ==
    /\ pc /= "start"
    /\ runs < MaxRuns
    /\ \E cfg \in RunConfigs : config' = cfg
    /\ runs' = runs + 1
    /\ files0' = files
    /\ began' = now
    /\ pc' = "start"
    /\ start_time' = now
    /\ current_requests' = <<>>
    /\ logs' = NoLogs
    /\ idx' = 1
    /\ amount_slept' = 0
    /\ stdout' = <<>>
    /\ accepted' = <<>>
    /\ emitted' = <<>>
    /\ fed_at' = <<>>
    /\ outs' = <<>>
    /\ waits' = <<>>
    /\ appends' = <<>>
    /\ received' = 0
    /\ UNCHANGED <<files, now, resolver, prev>>

\* the first process starts with no log file written yet
InitRuns == \E cfg \in RunConfigs : InitWith(cfg, NoFiles, ResolveNone, 0, "start")
NextRuns == Capture \/ RecvRun \/ Tick \/ Load \/ ReplayStep \/ ReplayReturn \/ Restart
SpecRuns == InitRuns /\ [][NextRuns]_vars

\* ------------------------------------------------------------ properties
\* the maximal runs of consecutive frames with one (source MAC, destination MAC)
Pair(f) == <<f.packet.orig_mac, f.packet.dest_mac>>
RunStarts(s) == {i \in 1..Len(s) : i = 1 \/ Pair(s[i]) /= Pair(s[i - 1])}
Runs(s) == Cardinality(RunStarts(s))
NthStart(s, k) == CHOOSE i \in RunStarts(s) : Cardinality({j \in RunStarts(s) : j <= i}) = k
RunEnd(s, k) == IF k < Runs(s) THEN NthStart(s, k + 1) - 1 ELSE Len(s)
Run(s, k) == SubSeq(s, NthStart(s, k), RunEnd(s, k))

RECURSIVE SumLen(_)
SumLen(s) == IF s = <<>> THEN 0 ELSE s[1].packet.payload + SumLen(Tail(s))

RECURSIVE SumTo(_, _)
SumTo(s, i) == IF i = 0 THEN 0 ELSE s[i] + SumTo(s, i - 1)

C2_ByteCount ==
    \A k \in 1..Len(emitted) :
        LET run == Run(accepted, k)
        IN  /\ emitted[k].bytes = SumLen(run)
            /\ emitted[k].packets = Len(run)
            /\ emitted[k].packets >= 1

\* a run of two frames of different lengths, emitted with their sum
C2_Witness ==
    \E k \in 1..Len(emitted) :
        /\ emitted[k].packets = 2
        /\ emitted[k].bytes = Ipv4HeaderLen + (Ipv4HeaderLen + 10)

\* C3: an emitted record has the protocol and the MAC addresses of the first
\* frame of its run, and the network addresses of the frame that broke the
\* run, the first frame of the next run
C3_Provenance ==
    \A k \in 1..Len(emitted) :
        LET first == accepted[NthStart(accepted, k)]
            breaking == accepted[NthStart(accepted, k + 1)]
        IN  /\ emitted[k].protocol = first.packet.protocol
            /\ emitted[k].orig_mac = first.packet.orig_mac
            /\ emitted[k].dest_mac = first.packet.dest_mac
            /\ emitted[k].orig_ip = breaking.orig_ip
            /\ emitted[k].dest_ip = breaking.dest_ip

\* a record whose addresses are those of no frame of its run, and whose run
\* holds frames of two protocols
C3_Witness ==
    \E k \in 1..Len(emitted) :
        LET run == Run(accepted, k)
        IN  /\ \A i \in 1..Len(run) : run[i].orig_ip /= emitted[k].orig_ip
            /\ \A i \in 1..Len(run) : run[i].dest_ip /= emitted[k].dest_ip
            /\ \E i \in 1..Len(run) : run[i].packet.protocol /= run[1].packet.protocol

PassesGate(stats) == config.protocol.some => stats.protocol = config.protocol.v

\* C4: with log_file set, the log holds, in order, every record handed to
\* print_request that passes the protocol gate, whether or not the exclude
\* and allow-list checks let it be printed; a record of another protocol
\* than the configured one is neither in the log nor printed
C4_LogBeforeFilter ==
    /\ config.log_file.some =>
          from_str(files[config.log_file.v].data).packets = SelectSeq(emitted, PassesGate)
    /\ config.protocol.some =>
          /\ \A i \in 1..Len(stdout) : stdout[i].protocol = config.protocol.v
          /\ Len(stdout) <= Len(SelectSeq(emitted, PassesGate))

\* two records: one stopped by the gate, one logged and then dropped by an
\* exclude or allow-list check
C4_Witness ==
    /\ config.log_file.some
    /\ config.protocol.some
    /\ pc = "live"
    /\ Len(emitted) = 2
    /\ \E i \in 1..2 : ~PassesGate(emitted[i])
    /\ Len(from_str(files[config.log_file.v].data).packets) = 1
    /\ stdout = <<>>

AppendsTo(f) == SelectSeq(appends, LAMBDA a : a.fname = f)

\* C5: a file that held nothing before the first append holds, after any
\* appends, a document with the start_time of the first append and the
\* appended records in order; a file that held what an append writes keeps
\* its start_time and its records, followed by the appended ones
C5_AnchorAndOrder ==
    \A f \in FileNames :
        LET mine == AppendsTo(f)
            doc == from_str(files[f].data)
            old == from_str(files0[f].data)
            added == [i \in 1..Len(mine) |-> mine[i].stats]
        IN  mine /= <<>> =>
              /\ files0[f] \in EmptyContents =>
                    /\ doc.ok
                    /\ doc.start_time = mine[1].start_time
                    /\ doc.packets = added
              /\ (old.ok /\ files0[f].data = to_string(old)) =>
                    /\ doc.ok
                    /\ doc.start_time = old.start_time
                    /\ doc.packets = old.packets \o added

\* three appends to a new file, with start times that differ from the first
C5_Witness ==
    /\ files0["a"] \in EmptyContents
    /\ Len(AppendsTo("a")) = 3
    /\ appends[2].start_time /= appends[1].start_time
    /\ appends[3].start_time /= appends[1].start_time
    /\ appends[1].stats /= appends[2].stats

\* C6: after an append to a file that is missing or holds text that is no
\* document, the file is the serialization of the document of the new
\* record alone, which parses
C6_StartsFresh ==
    \A f \in FileNames :
        LET mine == AppendsTo(f)
        IN  (Len(mine) = 1 /\ IsUtf8(files0[f].data) /\ ~from_str(files0[f].data).ok) =>
                /\ files[f].data = to_string(Log(<<mine[1].stats>>, mine[1].start_time))
                /\ from_str(files[f].data).ok

Loaded ==
    /\ config.load_from_file.some
    /\ pc \in {"replay", "exit", "panic"}
    /\ from_str(files0[config.load_from_file.v].data).ok

\* C7: when the file to load is missing, empty or no document, the process
\* panics at the load: no record is handed to print_request, nothing is
\* printed, log_to_file is not called and no file content changes
C7_LoadFatal ==
    (/\ config.load_from_file.some
     /\ pc /= "start"
     /\ ~from_str(files0[config.load_from_file.v].data).ok) =>
        /\ pc = "panic"
        /\ emitted = <<>>
        /\ stdout = <<>>
        /\ appends = <<>>
        /\ \A f \in FileNames : files[f].data = files0[f].data

\* the load has failed on a file that was missing, with log_file set
C7_Witness ==
    /\ config.load_from_file.some
    /\ config.log_file.some
    /\ ~files0[config.load_from_file.v].exists
    /\ pc = "panic"

\* C8: the real-time replay of a document whose timestamps are not before
\* its start_time, in whatever order they are stored, does not panic, and
\* once over has handed every record to print_request in stored order
C8_NoPanicOutOfOrder ==
    (/\ Loaded
     /\ config.real_time_playback
     /\ ~config.log_file.some
     /\ \A i \in 1..Len(logs.packets) : logs.packets[i].timestamp >= start_time) =>
        /\ pc /= "panic"
        /\ \A i \in 1..Len(waits) : waits[i] >= 0
        /\ pc = "exit" => emitted = logs.packets

Increasing(packets) ==
    \A i \in 1..(Len(packets) - 1) : packets[i].timestamp < packets[i + 1].timestamp

\* C9: in the real-time replay of a document whose timestamps increase
\* strictly from start_time or later, the time slept before the i-th record
\* is handed to print_request is in total t_i - start_time, and no record
\* is handed over before t_(i-1) - t_1 has passed since the process began
C9_Pacing ==
    (/\ Loaded
     /\ config.real_time_playback
     /\ Increasing(logs.packets)
     /\ \A i \in 1..Len(logs.packets) : logs.packets[i].timestamp >= start_time) =>
        /\ Len(waits) = Len(emitted)
        /\ \A i \in 1..Len(emitted) :
              /\ emitted[i] = logs.packets[i]
              /\ SumTo(waits, i) = logs.packets[i].timestamp - start_time
              /\ fed_at[i] - began >= logs.packets[i].timestamp - start_time
              /\ i > 1 => fed_at[i] - began >=
                            logs.packets[i - 1].timestamp - logs.packets[1].timestamp

\* a replay that slept before its first record and again before its second
\* is over
C9_Witness ==
    /\ Loaded
    /\ config.real_time_playback
    /\ Increasing(logs.packets)
    /\ pc = "exit"
    /\ Len(emitted) >= 2
    /\ waits[1] > 0
    /\ waits[2] > 0

NoElapsed(lines) == [i \in 1..Len(lines) |-> [lines[i] EXCEPT !.elapsed = 0]]

\* C10: when a capture with log_file set, whose log file held no document
\* when it began, is followed by an immediate replay of that file with the
\* same options, the replay prints the lines the capture printed, elapsed
\* times aside
C10_ReplayFidelity ==
    (/\ prev.ran
     /\ prev.config.log_file.some
     /\ ~from_str(prev.files0[prev.config.log_file.v].data).ok
     /\ config = [prev.config EXCEPT !.load_from_file = prev.config.log_file]
     /\ pc \in {"exit", "panic"}) =>
        NoElapsed(stdout) = NoElapsed(prev.stdout)

\* the list holds the entry that the string, given on the command line, makes
GivenIn(list, shown) ==
    /\ ~IpAddrOrHostname_from(shown).panic
    /\ IpAddrOrHostname_from(shown).v \in list

\* C11: with highlight_macs set a printed record is red exactly when one of
\* its MAC addresses is in that list, whatever highlight_ips holds; with
\* highlight_ips alone, exactly when one of its displayed addresses is an
\* entry of that list; with neither, never
C11_HighlightPrecedence ==
    \A i \in 1..Len(emitted) :
        outs[i] /= <<>> =>
            LET line == outs[i][1]
                rec == emitted[i]
            IN  IF config.highlight_macs.some
                THEN line.red <=> \/ rec.orig_mac \in config.highlight_macs.v
                                  \/ rec.dest_mac \in config.highlight_macs.v
                ELSE IF config.highlight_ips.some
                THEN line.red <=> \/ GivenIn(config.highlight_ips.v, line.orig_ip)
                                  \/ GivenIn(config.highlight_ips.v, line.dest_ip)
                ELSE ~line.red

\* C12: a record one of whose displayed addresses is the text of an entry
\* of exclude_ips (a name, an IPv4 literal or an IPv6 literal), or one of
\* whose MAC addresses is in exclude_macs, is not printed
C12_Exclude ==
    \A i \in 1..Len(emitted) :
        LET rec == emitted[i]
            orig_ip == displayed(rec.orig_ip, config, resolver)
            dest_ip == displayed(rec.dest_ip, config, resolver)
        IN  (\/ /\ config.exclude_ips.some
                /\ \/ GivenIn(config.exclude_ips.v, orig_ip)
                   \/ GivenIn(config.exclude_ips.v, dest_ip)
             \/ /\ config.exclude_macs.some
                /\ \/ rec.orig_mac \in config.exclude_macs.v
                   \/ rec.dest_mac \in config.exclude_macs.v) =>
                outs[i] = <<>>

\* C13: a record that passed the exclude check is dropped exactly when
\* filter_ips is set and neither displayed address is an entry of it, or
\* filter_macs is set and neither MAC address is in it
C13_AllowList ==
    \A i \in 1..Len(emitted) :
        LET rec == emitted[i]
            orig_ip == displayed(rec.orig_ip, config, resolver)
            dest_ip == displayed(rec.dest_ip, config, resolver)
            no_ip == /\ config.filter_ips.some
                     /\ ~GivenIn(config.filter_ips.v, orig_ip)
                     /\ ~GivenIn(config.filter_ips.v, dest_ip)
            no_mac == /\ config.filter_macs.some
                      /\ rec.orig_mac \notin config.filter_macs.v
                      /\ rec.dest_mac \notin config.filter_macs.v
        IN  (/\ ~excluded(rec, config, orig_ip, dest_ip)
             /\ rec.timestamp >= start_time) =>
                (outs[i] = <<>> <=> (no_ip \/ no_mac))

\* C14: no frame of an ethertype other than IPv4 and IPv6 reaches the
\* grouping, where it would join the open group or close it
C14_EthertypeGate ==
    \A i \in 1..Len(accepted) : accepted[i].raw.ethertype \in {"Ipv4", "Ipv6"}

\* C15: a turn of the capture loop on a datagram that hands no record to
\* print_request leaves the loop running: the datagram became a frame or
\* was skipped, and the process did not abort
C15_Totality ==
    [][(pc = "live" /\ received' = received + 1 /\ Len(emitted') = Len(emitted))
          => pc' = "live"]_vars

\* the table of the specification
ProtocolTable(num) ==
    IF num = 1 THEN "Icmp" ELSE IF num = 6 THEN "Tcp" ELSE IF num = 17 THEN "Udp" ELSE "Unknown"

\* C16: the protocol of a frame is the table's image of the byte at offset 9
\* of its payload, the table is total on the bytes, and every datagram,
\* whatever its protocol, is accepted and grouped
C16_ProtocolMapping ==
    /\ \A num \in 0..255 : ProtocolFrom(num) = ProtocolTable(num)
    /\ \A i \in 1..Len(accepted) :
          accepted[i].packet.protocol = ProtocolTable(accepted[i].raw.byte9)
    /\ pc = "live" => Len(accepted) = received
    /\ Len(emitted) = IF accepted = <<>> THEN 0 ELSE Runs(accepted) - 1
    /\ \A k \in 1..Len(emitted) :
          emitted[k].protocol = ProtocolTable(accepted[NthStart(accepted, k)].raw.byte9)

\* a group of two frames of unknown protocol, one of them of protocol 255,
\* was closed into a record of unknown protocol by an ICMP frame
C16_Witness ==
    /\ Len(accepted) = 3
    /\ accepted[1].raw.byte9 = 255
    /\ accepted[2].raw.byte9 = 0
    /\ accepted[3].raw.byte9 = 1
    /\ accepted[3].packet.protocol = "Icmp"
    /\ Len(emitted) = 1
    /\ emitted[1].protocol = "Unknown"
    /\ emitted[1].packets = 2

\* the string print_request shows for the address when hostnames is off
Numeric(ip) == displayed(ip, [config EXCEPT !.hostnames = FALSE], resolver)

\* C17: with hostnames set, an address whose resolution fails is shown as
\* it is with hostnames off, whole
C17_ResolutionFallback ==
    \A i \in 1..Len(emitted) :
        (outs[i] /= <<>> /\ config.hostnames) =>
            /\ ~resolver[emitted[i].orig_ip].ok => outs[i][1].orig_ip = Numeric(emitted[i].orig_ip)
            /\ ~resolver[emitted[i].dest_ip].ok => outs[i][1].dest_ip = Numeric(emitted[i].dest_ip)

\* the resolver answered with a name, not with the numeric string
Named(ip) == resolver[ip].ok /\ resolver[ip].name /= IpAddrToString(ip)

\* the last two labels of a name of three labels or more, else the name
LastTwo(name) == IF Len(name) >= 3 THEN SubSeq(name, Len(name) - 1, Len(name)) ELSE name

\* C18: with hostnames set, an address that resolves to a name is shown as
\* the last two labels of the name when it has three or more, as the whole
\* name otherwise; never as more than two labels
C18_DomainTruncation ==
    \A i \in 1..Len(emitted) :
        (outs[i] /= <<>> /\ config.hostnames) =>
            /\ Named(emitted[i].orig_ip) =>
                  /\ outs[i][1].orig_ip = LastTwo(resolver[emitted[i].orig_ip].name)
                  /\ Len(outs[i][1].orig_ip) <= 2
            /\ Named(emitted[i].dest_ip) =>
                  /\ outs[i][1].dest_ip = LastTwo(resolver[emitted[i].dest_ip].name)
                  /\ Len(outs[i][1].dest_ip) <= 2

\* foo.bar.example.com printed as example.com, and router.lan printed whole
C18_Witness ==
    /\ config.hostnames
    /\ \E i \in 1..Len(emitted) :
          /\ outs[i] /= <<>>
          /\ Len(resolver[emitted[i].orig_ip].name) = 4
          /\ outs[i][1].orig_ip = Name(<<"example", "com">>)
    /\ \E i \in 1..Len(emitted) :
          /\ outs[i] /= <<>>
          /\ outs[i][1].orig_ip = Name(<<"router", "lan">>)

\* the open group holds frames of one MAC pair, and is not empty once a
\* frame has been accepted
OneOpenGroup ==
    /\ \A i \in 1..Len(current_requests) :
          /\ current_requests[i].orig_mac = current_requests[1].orig_mac
          /\ current_requests[i].dest_mac = current_requests[1].dest_mac
    /\ accepted /= <<>> => current_requests /= <<>>

\* what the acceptance of a frame does to the open group: the first frame
\* opens it, a frame of its pair joins it and nothing is emitted, a frame of
\* another pair has one record emitted and is left alone in the group
GroupStep ==
    Len(accepted') = Len(accepted) + 1 =>
        LET frame == accepted'[Len(accepted')].packet
        IN  IF current_requests = <<>>
            THEN current_requests' = <<frame>> /\ emitted' = emitted
            ELSE IF /\ frame.orig_mac = current_requests[1].orig_mac
                    /\ frame.dest_mac = current_requests[1].dest_mac
            THEN current_requests' = Append(current_requests, frame) /\ emitted' = emitted
            ELSE /\ Len(emitted') = Len(emitted) + 1
                 /\ SubSeq(emitted', 1, Len(emitted)) = emitted
                 /\ current_requests' = <<frame>>

C20_ReplayOrder ==
    (/\ Loaded
     /\ \A i \in 1..Len(logs.packets) : logs.packets[i].timestamp >= logs.start_time) =>
        /\ pc /= "panic"
        /\ start_time = logs.start_time
        /\ emitted = SubSeq(logs.packets, 1, Len(emitted))
        /\ pc = "exit" => emitted = logs.packets
        /\ accepted = <<>>
        /\ received = 0
        /\ current_requests = <<>>

RECURSIVE SumPackets(_)
SumPackets(recs) == IF recs = <<>> THEN 0 ELSE recs[1].packets + SumPackets(Tail(recs))

RECURSIVE SumBytes(_)
SumBytes(recs) == IF recs = <<>> THEN 0 ELSE recs[1].bytes + SumBytes(Tail(recs))

\* the payloads the records hold, one after another
RECURSIVE Payloads(_)
Payloads(recs) == IF recs = <<>> THEN <<>> ELSE recs[1].raw \o Payloads(Tail(recs))

\* C21: at every point of the capture the packets of the emitted records
\* and the frames of the open group are together as many as the accepted
\* frames, and likewise their bytes; the payloads of the records followed by
\* those of the open group are the payloads of the accepted frames in
\* order, each once
C21_Conservation ==
    /\ SumPackets(emitted) + Len(current_requests) = Len(accepted)
    /\ SumBytes(emitted) + SumPayload(current_requests) = SumLen(accepted)
    /\ Payloads(emitted) \o [i \in 1..Len(current_requests) |-> current_requests[i].payload]
          = [i \in 1..Len(accepted) |-> accepted[i].packet.payload]

\* three frames of lengths that differ, each of another pair than the one
\* before: two records of one frame each, and the third frame in the open group
C21_Witness ==
    /\ Len(accepted) = 3
    /\ Len(emitted) = 2
    /\ emitted[1].bytes /= emitted[2].bytes
    /\ Len(current_requests) = 1
    /\ pc = "live"

\* every record of the document the file holds, if it holds one, has a
\* timestamp that is not before the document's start_time
Comparable(file) ==
    LET doc == from_str(file.data)
    IN  (IsUtf8(file.data) /\ doc.ok) =>
            \A i \in 1..Len(doc.packets) : doc.packets[i].timestamp >= doc.start_time

\* C22: whatever captures and replays have run and appended to the log
\* files, each record of each document has a timestamp that is not before
\* the start_time of the document it is stored in
C22_Comparable == \A f \in FileNames : Comparable(files[f])

\* C23: a replay with no log_file leaves every file as it was when the
\* process started, none created, none changed, whether the load succeeded
\* or failed and also when the file to load was missing; with log_file set,
\* every file but the one it names is as it was
C23_ReplayReadOnly ==
    (config.load_from_file.some /\ pc /= "start") =>
        \A f \in FileNames :
            (config.log_file.some => f /= config.log_file.v) => files[f] = files0[f]

====
